---- MODULE Spec2Model ----
(***************************************************************************)
(* trmnl-display: the exclusive-access lock (FramebufferLock), the main    *)
(* loop with its signal handler, and the memory-mapped Framebuffer         *)
(* surface.                                                                *)
(*                                                                         *)
(*   Spec      several processes calling Acquire / Release on one lock     *)
(*             path, each call broken into its system calls                *)
(*   SpecMain  one process: main() and the signal-handler goroutine        *)
(*   SpecFB    one Framebuffer surface and its sub-image views             *)
(***************************************************************************)
EXTENDS Integers, Sequences, FiniteSets, TLC

\* ------------------------------------------------------------------ bounds
NumProcs == 2
MaxW == 2
MaxH == 2
MaxPad == 1
MaxNest == 2
MaxWritten == 2

\* ------------------------------------------------------------- lock state
VARIABLES alive, marker, pc, Acquired, pidRead, res, fdLinked, relLog

lockVars == <<alive, marker, pc, Acquired, pidRead, res, fdLinked, relLog>>

Procs == 1..NumProcs

\* pid of an instance that terminated before the run started
StalePid == NumProcs + 1

Pids == 1..StalePid

\* os.Getpid(): the process index is its pid
Getpid(p) == p

NoFile == [exists |-> FALSE, data |-> <<>>]

\* fmt.Sprintf("%d", pid): the decimal digits, most significant first
RECURSIVE Itoa(_)
Itoa(n) == IF n < 10 THEN <<n>> ELSE Itoa(n \div 10) \o <<n % 10>>

\* characters of a text file: the digits are 0..9
Comma == 10
Junk == 11

\* strconv.Atoi(strings.TrimSpace(s)): the empty string and a string with a
\* character that is no digit are syntax errors, which return 0
RECURSIVE AtoiDigits(_)
AtoiDigits(s) ==
    IF Len(s) = 0 THEN 0
    ELSE 10 * AtoiDigits(SubSeq(s, 1, Len(s) - 1)) + s[Len(s)]

Atoi(s) == IF Len(s) = 0 \/ \E i \in 1..Len(s) : s[i] \notin 0..9
           THEN [err |-> TRUE, val |-> 0]
           ELSE [err |-> FALSE, val |-> AtoiDigits(s)]

\* a file that exists and holds the text s
Text(s) == [exists |-> TRUE, data |-> s]

\* strings.Split(s, ",")
RECURSIVE Split(_)
Split(s) ==
    IF \A i \in 1..Len(s) : s[i] # Comma THEN <<s>>
    ELSE LET i == CHOOSE j \in 1..Len(s) :
                    s[j] = Comma /\ \A k \in 1..(j - 1) : s[k] # Comma
         IN  <<SubSeq(s, 1, i - 1)>> \o Split(SubSeq(s, i + 1, Len(s)))

\* write(2) at offset 0 of a file that was opened without O_APPEND: the new
\* bytes replace the first Len(new) bytes, a longer old tail stays
Overlay(old, new) ==
    IF Len(old) > Len(new) THEN new \o SubSeq(old, Len(new) + 1, Len(old))
    ELSE new

\* isProcessRunning with the test of the signal's error inverted
isProcessRunning_inverted(pid) == ~(pid \in DOMAIN alive /\ alive[pid])

\* FramebufferLock.isProcessRunning: kill(pid, 0) succeeds
isProcessRunning(pid) == pid \in DOMAIN alive /\ alive[pid]

\* ----------------------------------------------------- main / handler state
VARIABLES mpc, hpc, fbLockSet, fbOwners, fbWrites, cycleErr, exitBy

mainVars == <<mpc, hpc, fbLockSet, fbOwners, fbWrites, cycleErr, exitBy>>

\* ------------------------------------------------------------ surface state
VARIABLES fbFile, fbMapped, fbData, fbWidth, fbHeight, fbStride, fbDepth,
          view, lastAt, openErr, closeErr, written, oobHit, panicked,
          openArgs, rendered

fbVars == <<fbFile, fbMapped, fbData, fbWidth, fbHeight, fbStride, fbDepth,
            view, lastAt, openErr, closeErr, written, oobHit, panicked,
            openArgs, rendered>>

\* ------------------------------------------------- image file and decoders
VARIABLES imgFile, darkMode, intBits, decRes, dispRes

bmpVars == <<imgFile, darkMode, intBits, decRes, dispRes>>

vars == <<lockVars, mainVars, fbVars, bmpVars>>

\* ===================================================== FramebufferLock ====
\* NewFramebufferLock followed by the call of Acquire on a lock this
\* process does not hold
CallAcquire(p) ==
    /\ alive[p] /\ pc[p] = "idle" /\ ~Acquired[p]
    /\ pc' = [pc EXCEPT ![p] = "stat"]
    /\ res' = [res EXCEPT ![p] = "none"]
    /\ pidRead' = [pidRead EXCEPT ![p] = 0]
    /\ relLog' = [relLog EXCEPT ![p] = <<>>]
    /\ UNCHANGED <<alive, marker, Acquired, fdLinked>>

\* Acquire: os.Stat(l.LockPath)
AcqStat(p) ==
    /\ alive[p] /\ pc[p] = "stat"
    /\ pc' = [pc EXCEPT ![p] = IF marker.exists THEN "read" ELSE "open"]
    /\ UNCHANGED <<alive, marker, Acquired, pidRead, res, fdLinked, relLog>>

\* Acquire: l.readLockFile(), os.ReadFile then TrimSpace and Atoi
AcqRead(p) ==
    /\ alive[p] /\ pc[p] = "read"
    /\ LET r == Atoi(marker.data) IN
       IF ~marker.exists \/ r.err
       THEN /\ res' = [res EXCEPT ![p] = "readerr"]
            /\ pc' = [pc EXCEPT ![p] = "idle"]
            /\ UNCHANGED pidRead
       ELSE /\ pidRead' = [pidRead EXCEPT ![p] = r.val]
            /\ pc' = [pc EXCEPT ![p] = "probe"]
            /\ UNCHANGED res
    /\ UNCHANGED <<alive, marker, Acquired, fdLinked, relLog>>

\* Acquire: l.isProcessRunning(pid), busy error or on to the stale removal
AcqProbe(p) ==
    /\ alive[p] /\ pc[p] = "probe"
    /\ IF isProcessRunning(pidRead[p])
       THEN /\ res' = [res EXCEPT ![p] = "busy"]
            /\ pc' = [pc EXCEPT ![p] = "idle"]
       ELSE /\ pc' = [pc EXCEPT ![p] = "remove"]
            /\ UNCHANGED res
    /\ UNCHANGED <<alive, marker, Acquired, pidRead, fdLinked, relLog>>

\* Acquire: os.Remove(l.LockPath) of the stale marker; ENOENT is an error.
\* Descriptors that are open on the unlinked file no longer reach the path.
AcqRemove(p) ==
    /\ alive[p] /\ pc[p] = "remove"
    /\ IF marker.exists
       THEN /\ marker' = NoFile
            /\ fdLinked' = [q \in Procs |-> FALSE]
            /\ pc' = [pc EXCEPT ![p] = "open"]
            /\ UNCHANGED res
       ELSE /\ res' = [res EXCEPT ![p] = "rmerr"]
            /\ pc' = [pc EXCEPT ![p] = "idle"]
            /\ UNCHANGED <<marker, fdLinked>>
    /\ UNCHANGED <<alive, Acquired, pidRead, relLog>>

\* writeLockFile: os.WriteFile opens with O_WRONLY|O_CREATE|O_TRUNC
AcqOpen(p) ==
    /\ alive[p] /\ pc[p] = "open"
    /\ marker' = [exists |-> TRUE, data |-> <<>>]
    /\ fdLinked' = [fdLinked EXCEPT ![p] = TRUE]
    /\ pc' = [pc EXCEPT ![p] = "write"]
    /\ UNCHANGED <<alive, Acquired, pidRead, res, relLog>>

\* writeLockFile: os.WriteFile writes the pid and closes
AcqWrite(p) ==
    /\ alive[p] /\ pc[p] = "write"
    /\ marker' = IF fdLinked[p]
                 THEN [exists |-> TRUE,
                       data |-> Overlay(marker.data, Itoa(Getpid(p)))]
                 ELSE marker
    /\ fdLinked' = [fdLinked EXCEPT ![p] = FALSE]
    /\ pc' = [pc EXCEPT ![p] = "mark"]
    /\ UNCHANGED <<alive, Acquired, pidRead, res, relLog>>

\* Acquire: l.Acquired = true; return nil
AcqMark(p) ==
    /\ alive[p] /\ pc[p] = "mark"
    /\ Acquired' = [Acquired EXCEPT ![p] = TRUE]
    /\ res' = [res EXCEPT ![p] = "ok"]
    /\ pc' = [pc EXCEPT ![p] = "idle"]
    /\ UNCHANGED <<alive, marker, pidRead, fdLinked, relLog>>

AcquireStep(p) ==
    \/ AcqStat(p) \/ AcqRead(p) \/ AcqProbe(p) \/ AcqRemove(p)
    \/ AcqOpen(p) \/ AcqWrite(p) \/ AcqMark(p)

\* the outcome of one Release call, kept with the one before it
Logged(log, o) == IF Len(log) = 0 THEN <<o>> ELSE <<log[Len(log)], o>>

\* Release without the test of l.Acquired
ReleaseOp_unguarded(p) ==
    /\ alive[p]
    /\ IF marker.exists
       THEN /\ marker' = NoFile
            /\ fdLinked' = [q \in Procs |-> FALSE]
            /\ Acquired' = [Acquired EXCEPT ![p] = FALSE]
            /\ relLog' = [relLog EXCEPT ![p] = Logged(@, "removed")]
       ELSE /\ relLog' = [relLog EXCEPT ![p] = Logged(@, "failed")]
            /\ UNCHANGED <<marker, fdLinked, Acquired>>
    /\ UNCHANGED <<alive, pc, pidRead, res>>

\* FramebufferLock.Release
ReleaseOp(p) ==
    /\ alive[p]
    /\ IF Acquired[p]
       THEN IF marker.exists
            THEN /\ marker' = NoFile
                 /\ fdLinked' = [q \in Procs |-> FALSE]
                 /\ Acquired' = [Acquired EXCEPT ![p] = FALSE]
                 /\ relLog' = [relLog EXCEPT ![p] = Logged(@, "removed")]
            ELSE /\ relLog' = [relLog EXCEPT ![p] = Logged(@, "failed")]
                 /\ UNCHANGED <<marker, fdLinked, Acquired>>
       ELSE /\ relLog' = [relLog EXCEPT ![p] = Logged(@, "noop")]
            /\ UNCHANGED <<marker, fdLinked, Acquired>>
    /\ UNCHANGED <<alive, pc, pidRead, res>>

Release(p) == pc[p] = "idle" /\ ReleaseOp(p)

\* the process is killed (kill -9) or crashes: nothing is cleaned up
Crash(p) ==
    /\ alive[p]
    /\ alive' = [alive EXCEPT ![p] = FALSE]
    /\ pc' = [pc EXCEPT ![p] = "dead"]
    /\ Acquired' = [Acquired EXCEPT ![p] = FALSE]
    /\ fdLinked' = [fdLinked EXCEPT ![p] = FALSE]
    /\ UNCHANGED <<marker, pidRead, res, relLog>>

LockInit ==
    /\ alive = [q \in Pids |-> q \in Procs]
    /\ marker \in {NoFile, [exists |-> TRUE, data |-> Itoa(StalePid)]}
    /\ pc = [p \in Procs |-> "idle"]
    /\ Acquired = [p \in Procs |-> FALSE]
    /\ pidRead = [p \in Procs |-> 0]
    /\ res = [p \in Procs |-> "none"]
    /\ fdLinked = [p \in Procs |-> FALSE]
    /\ relLog = [p \in Procs |-> <<>>]

MainIdle ==
    /\ mpc = "off" /\ hpc = "off" /\ fbLockSet = FALSE
    /\ fbOwners = {} /\ fbWrites = {}
    /\ cycleErr = "none" /\ exitBy = "none"

\* what a decoder returns: a panic, an error, or an image of w x h pixels
Decoded(panic, err, w, h, pix) ==
    [panic |-> panic, err |-> err, width |-> w, height |-> h, pix |-> pix]

NoImage == Decoded(FALSE, "not called", 0, 0, <<>>)

\* what the decode stage of displayImage did: the format getImageFormat
\* sniffed, the format and error of image.Decode, whether decodeCustomBMP
\* ran, and the error or image it went on with
NoDisplay == [sniff |-> "", stdFormat |-> "", stdErr |-> FALSE,
              custom |-> FALSE, err |-> "not called", img |-> NoImage]

\* no image file has been downloaded, no decoder has run
BMPIdle ==
    /\ imgFile = <<>> /\ darkMode = FALSE /\ intBits = 64
    /\ decRes = NoImage /\ dispRes = NoDisplay

ZeroColor == [R |-> 0, G |-> 0, B |-> 0, A |-> 0]

ZR == [MinX |-> 0, MinY |-> 0, MaxX |-> 0, MaxY |-> 0]

\* the sysfs files and the forced depth of the last open call; forced is -1
\* for OpenFramebuffer, which takes no depth
NoArgs == [bpp |-> NoFile, size |-> NoFile, stride |-> NoFile, forced |-> -2]

FBIdle ==
    /\ fbFile = "none" /\ fbMapped = FALSE /\ fbData = <<>>
    /\ fbWidth = 0 /\ fbHeight = 0 /\ fbStride = 0 /\ fbDepth = 0
    /\ view = [depth |-> 0, bounds |-> ZR]
    /\ lastAt = ZeroColor /\ openErr = "none" /\ closeErr = FALSE
    /\ written = <<>> /\ oobHit = FALSE /\ panicked = FALSE
    /\ openArgs = NoArgs /\ rendered = NoImage

Init == LockInit /\ MainIdle /\ FBIdle /\ BMPIdle

Next ==
    \/ \E p \in Procs : CallAcquire(p) /\ UNCHANGED <<mainVars, fbVars, bmpVars>>
    \/ \E p \in Procs : AcqStat(p) /\ UNCHANGED <<mainVars, fbVars, bmpVars>>
    \/ \E p \in Procs : AcqRead(p) /\ UNCHANGED <<mainVars, fbVars, bmpVars>>
    \/ \E p \in Procs : AcqProbe(p) /\ UNCHANGED <<mainVars, fbVars, bmpVars>>
    \/ \E p \in Procs : AcqRemove(p) /\ UNCHANGED <<mainVars, fbVars, bmpVars>>
    \/ \E p \in Procs : AcqOpen(p) /\ UNCHANGED <<mainVars, fbVars, bmpVars>>
    \/ \E p \in Procs : AcqWrite(p) /\ UNCHANGED <<mainVars, fbVars, bmpVars>>
    \/ \E p \in Procs : AcqMark(p) /\ UNCHANGED <<mainVars, fbVars, bmpVars>>
    \/ \E p \in Procs : Release(p) /\ UNCHANGED <<mainVars, fbVars, bmpVars>>
    \/ \E p \in Procs : Crash(p) /\ UNCHANGED <<mainVars, fbVars, bmpVars>>

Spec == Init /\ [][Next]_vars

\* ============================================ main and its signal handler
\* the process whose main() and handler goroutine SpecMain follows
Self == 1

Threads == {"main", "handler"}

\* main: setupSignalHandling() starts the handler goroutine
MainSetup ==
    /\ mpc = "start"
    /\ mpc' = "config" /\ hpc' = "wait"
    /\ UNCHANGED <<fbLockSet, fbOwners, fbWrites, lockVars, fbVars, bmpVars>>
    /\ UNCHANGED <<cycleErr, exitBy>>

\* main: fbLock = NewFramebufferLock(...); err = fbLock.Acquire()
MainCallAcquire ==
    /\ mpc = "config"
    /\ CallAcquire(Self)
    /\ fbLockSet' = TRUE /\ mpc' = "acquire"
    /\ UNCHANGED <<hpc, fbOwners, fbWrites, fbVars, bmpVars>>
    /\ UNCHANGED <<cycleErr, exitBy>>

\* main: the system calls of fbLock.Acquire()
MainAcquireStep ==
    /\ mpc = "acquire"
    /\ AcquireStep(Self)
    /\ UNCHANGED <<mainVars, fbVars, bmpVars>>

\* os.Exit: the process is gone, its mappings and descriptors with it
ExitProcess ==
    /\ alive' = [alive EXCEPT ![Self] = FALSE]
    /\ pc' = [pc EXCEPT ![Self] = "dead"]
    /\ fdLinked' = [fdLinked EXCEPT ![Self] = FALSE]
    /\ mpc' = "exited" /\ hpc' = "exited"
    /\ fbOwners' = {}
    /\ UNCHANGED <<marker, Acquired, pidRead, res, relLog, fbLockSet,
                   fbWrites, fbVars, bmpVars>>
    /\ UNCHANGED cycleErr

\* main: Acquire returned nil, go on to disableCursor and the startup clear
MainAcquired ==
    /\ mpc = "acquire" /\ pc[Self] = "idle" /\ res[Self] = "ok"
    /\ mpc' = "clear_open"
    /\ UNCHANGED <<hpc, fbLockSet, fbOwners, fbWrites, lockVars, fbVars, bmpVars>>
    /\ UNCHANGED <<cycleErr, exitBy>>

\* main: Acquire returned an error, os.Exit(1)
MainAcquireFailed ==
    /\ mpc = "acquire" /\ pc[Self] = "idle"
    /\ res[Self] \notin {"none", "ok"}
    /\ ExitProcess /\ exitBy' = "acquire"

\* framebuffer.Open("/dev/fb0") by thread t; ok is whether it succeeds
OpenFb(t, ok) == fbOwners' = IF ok THEN fbOwners \cup {t} ELSE fbOwners

\* draw.Draw onto the open framebuffer by thread t
DrawFb(t, what) ==
    fbWrites' = fbWrites \cup {<<what, fbLockSet /\ Acquired[Self]>>}

\* the deferred fb.Close() of thread t
CloseFb(t) == fbOwners' = fbOwners \ {t}

\* clearFramebuffer in main: framebuffer.Open, return on error
MainClearOpen ==
    /\ mpc = "clear_open"
    /\ \E ok \in BOOLEAN :
         /\ OpenFb("main", ok)
         /\ mpc' = IF ok THEN "clear_draw" ELSE "fetch"
    /\ UNCHANGED <<hpc, fbLockSet, fbWrites, lockVars, fbVars, bmpVars>>
    /\ UNCHANGED <<cycleErr, exitBy>>

\* clearFramebuffer in main: draw.Draw of the black image, Flush
MainClearDraw ==
    /\ mpc = "clear_draw"
    /\ DrawFb("main", "startup")
    /\ mpc' = "clear_close"
    /\ UNCHANGED <<hpc, fbLockSet, fbOwners, lockVars, fbVars, bmpVars>>
    /\ UNCHANGED <<cycleErr, exitBy>>

\* clearFramebuffer in main: deferred fb.Close()
MainClearClose ==
    /\ mpc = "clear_close"
    /\ CloseFb("main")
    /\ mpc' = "fetch"
    /\ UNCHANGED <<hpc, fbLockSet, fbWrites, lockVars, fbVars, bmpVars>>
    /\ UNCHANGED <<cycleErr, exitBy>>

\* a failure e inside processNextImage ends the whole process
Failed_exits(e) == mpc' = "exited" /\ cycleErr' = e /\ exitBy' = "failure"

\* a failure e inside processNextImage: the error branches print, sleep 60
\* seconds and return; a panic unwinds to the deferred recover(), which
\* prints and sleeps 60 seconds before processNextImage returns
Failed(e) == mpc' = "sleep60" /\ cycleErr' = e /\ UNCHANGED exitBy

\* the failures of processNextImage before it calls displayImage
FetchFailures ==
    {"creating request", "fetching display", "status code", "parsing JSON",
     "downloading image", "creating file", "saving image", "panic"}

\* processNextImage up to the call of displayImage: request, status, JSON,
\* download, file
MainFetch ==
    /\ mpc = "fetch"
    /\ \/ mpc' = "decode" /\ UNCHANGED <<cycleErr, exitBy>>
       \/ \E e \in FetchFailures : Failed(e)
    /\ UNCHANGED <<hpc, fbLockSet, fbOwners, fbWrites, lockVars, fbVars,
                   bmpVars>>

\* displayImage: open the file, sniff the format, decode; a decoder may
\* return an error or panic
MainDecode ==
    /\ mpc = "decode"
    /\ \/ mpc' = "check" /\ UNCHANGED <<cycleErr, exitBy>>
       \/ \E e \in {"displaying image", "panic"} : Failed(e)
    /\ UNCHANGED <<hpc, fbLockSet, fbOwners, fbWrites, lockVars, fbVars,
                   bmpVars>>

\* displayImage: "Verify we still have the lock before proceeding"
MainCheckLock ==
    /\ mpc = "check"
    /\ IF fbLockSet /\ ~Acquired[Self] THEN Failed("displaying image")
       ELSE mpc' = "open" /\ UNCHANGED <<cycleErr, exitBy>>
    /\ UNCHANGED <<hpc, fbLockSet, fbOwners, fbWrites, lockVars, fbVars,
                   bmpVars>>

\* displayImage: chvt, framebuffer.Open
MainOpen ==
    /\ mpc = "open"
    /\ \/ OpenFb("main", TRUE) /\ mpc' = "draw"
          /\ UNCHANGED <<cycleErr, exitBy>>
       \/ OpenFb("main", FALSE) /\ Failed("displaying image")
    /\ UNCHANGED <<hpc, fbLockSet, fbWrites, lockVars, fbVars, bmpVars>>

\* displayImage: scale, draw.Draw, Flush; a panic here runs the deferred
\* fb.Close() on its way to recover()
MainDraw ==
    /\ mpc = "draw"
    /\ \/ /\ DrawFb("main", "display") /\ mpc' = "close"
          /\ UNCHANGED <<fbOwners, cycleErr, exitBy>>
       \/ /\ CloseFb("main") /\ Failed("panic")
          /\ UNCHANGED fbWrites
    /\ UNCHANGED <<hpc, fbLockSet, lockVars, fbVars, bmpVars>>

\* displayImage: deferred fb.Close()
MainClose ==
    /\ mpc = "close"
    /\ CloseFb("main")
    /\ mpc' = "sleep"
    /\ UNCHANGED <<hpc, fbLockSet, fbWrites, lockVars, fbVars, bmpVars>>
    /\ UNCHANGED <<cycleErr, exitBy>>

\* processNextImage: the end of time.Sleep, of the refresh rate or of the
\* 60 seconds after a failure; return; main's for loop calls it again
MainSleep ==
    /\ mpc \in {"sleep", "sleep60"}
    /\ mpc' = "fetch" /\ cycleErr' = "none"
    /\ UNCHANGED <<hpc, fbLockSet, fbOwners, fbWrites, exitBy, lockVars,
                   fbVars, bmpVars>>

\* handler goroutine: <-c receives SIGINT, SIGTERM or SIGHUP
HandlerSignal ==
    /\ hpc = "wait"
    /\ hpc' = "release"
    /\ UNCHANGED <<mpc, fbLockSet, fbOwners, fbWrites, lockVars, fbVars, bmpVars>>
    /\ UNCHANGED <<cycleErr, exitBy>>

\* handler goroutine: if fbLock != nil { fbLock.Release() }
HandlerRelease ==
    /\ hpc = "release"
    /\ IF fbLockSet THEN ReleaseOp(Self) ELSE UNCHANGED lockVars
    /\ hpc' = "clear_open"
    /\ UNCHANGED <<mpc, fbLockSet, fbOwners, fbWrites, fbVars, bmpVars>>
    /\ UNCHANGED <<cycleErr, exitBy>>

\* clearFramebuffer in the handler: framebuffer.Open, return on error
HandlerClearOpen ==
    /\ hpc = "clear_open"
    /\ \E ok \in BOOLEAN :
         /\ OpenFb("handler", ok)
         /\ hpc' = IF ok THEN "clear_draw" ELSE "exit"
    /\ UNCHANGED <<mpc, fbLockSet, fbWrites, lockVars, fbVars, bmpVars>>
    /\ UNCHANGED <<cycleErr, exitBy>>

\* clearFramebuffer in the handler: draw.Draw of the black image, Flush
HandlerClearDraw ==
    /\ hpc = "clear_draw"
    /\ DrawFb("handler", "shutdown")
    /\ hpc' = "clear_close"
    /\ UNCHANGED <<mpc, fbLockSet, fbOwners, lockVars, fbVars, bmpVars>>
    /\ UNCHANGED <<cycleErr, exitBy>>

\* clearFramebuffer in the handler: deferred fb.Close()
HandlerClearClose ==
    /\ hpc = "clear_close"
    /\ CloseFb("handler")
    /\ hpc' = "exit"
    /\ UNCHANGED <<mpc, fbLockSet, fbWrites, lockVars, fbVars, bmpVars>>
    /\ UNCHANGED <<cycleErr, exitBy>>

\* handler goroutine: restoreCursor(); os.Exit(0)
HandlerExit ==
    /\ hpc = "exit"
    /\ ExitProcess /\ exitBy' = "signal"

InitMain ==
    /\ alive = [q \in Pids |-> q \in Procs]
    /\ marker \in {NoFile, [exists |-> TRUE, data |-> Itoa(StalePid)],
                  [exists |-> TRUE, data |-> Itoa(Getpid(NumProcs))]}
    /\ pc = [p \in Procs |-> "idle"]
    /\ Acquired = [p \in Procs |-> FALSE]
    /\ pidRead = [p \in Procs |-> 0]
    /\ res = [p \in Procs |-> "none"]
    /\ fdLinked = [p \in Procs |-> FALSE]
    /\ relLog = [p \in Procs |-> <<>>]
    /\ FBIdle /\ BMPIdle
    /\ mpc = "start" /\ hpc = "off" /\ fbLockSet = FALSE
    /\ fbOwners = {} /\ fbWrites = {}
    /\ cycleErr = "none" /\ exitBy = "none"

NextMain ==
    \/ MainSetup \/ MainCallAcquire \/ MainAcquireStep
    \/ MainAcquired \/ MainAcquireFailed
    \/ MainClearOpen \/ MainClearDraw \/ MainClearClose
    \/ MainFetch \/ MainDecode \/ MainCheckLock
    \/ MainOpen \/ MainDraw \/ MainClose \/ MainSleep
    \/ HandlerSignal \/ HandlerRelease
    \/ HandlerClearOpen \/ HandlerClearDraw \/ HandlerClearClose
    \/ HandlerExit

SpecMain == InitMain /\ [][NextMain]_vars

\* C6: at most one surface is open on /dev/fb0 at any moment, across the
\* main loop's clearFramebuffer and displayImage and the handler's
\* clearFramebuffer.
OneSurfaceOpen == Cardinality(fbOwners) <= 1

\* ============================================================ Framebuffer
ColorDepth16 == 16
ColorDepth24 == 24
ColorDepth32 == 32

Depths == {ColorDepth16, ColorDepth24, ColorDepth32}

\* int(fb.colorDepth) / 8
BytesPerPixel(d) == d \div 8

\* a | b on 8-bit values
RECURSIVE Or8(_, _, _)
Or8(a, b, n) ==
    IF n = 0 THEN 0
    ELSE (IF a % 2 = 1 \/ b % 2 = 1 THEN 1 ELSE 0)
         + 2 * Or8(a \div 2, b \div 2, n - 1)

\* rgbaToRGB565 with the green field shifted as if it were 5 bits wide
rgbaToRGB565_greenShift(r, g, b) ==
    LET r5 == (r \div 8) % 32
        g6 == (g \div 8) % 64
        b5 == (b \div 8) % 32
    IN  (r5 * 2048 + g6 * 32 + b5) % 65536

rgbaToRGB565(r, g, b) ==
    LET r5 == (r \div 8) % 32
        g6 == (g \div 4) % 64
        b5 == (b \div 8) % 32
    IN  (r5 * 2048 + g6 * 32 + b5) % 65536

rgb565ToRGBA(pixel) ==
    LET r0 == (((pixel \div 2048) % 32) * 8) % 256
        g0 == (((pixel \div 32) % 64) * 4) % 256
        b0 == ((pixel % 32) * 8) % 256
    IN  [R |-> Or8(r0, r0 \div 32, 8),
         G |-> Or8(g0, g0 \div 64, 8),
         B |-> Or8(b0, b0 \div 32, 8),
         A |-> 255]

\* color.RGBA.RGBA(): each 8-bit channel widened to 16 bits
RGBA16(c) == [r |-> c.R * 257, g |-> c.G * 257,
              b |-> c.B * 257, a |-> c.A * 257]

\* image.Rectangle
Rect(x0, y0, x1, y1) ==
    [MinX |-> IF x0 > x1 THEN x1 ELSE x0, MinY |-> IF y0 > y1 THEN y1 ELSE y0,
     MaxX |-> IF x0 > x1 THEN x0 ELSE x1, MaxY |-> IF y0 > y1 THEN y0 ELSE y1]

\* Rectangle.Empty
RectEmpty(r) == r.MinX >= r.MaxX \/ r.MinY >= r.MaxY

\* Intersect with the upper corner left unclipped
Intersect_noMaxClip(r, s) ==
    LET t == [MinX |-> IF r.MinX < s.MinX THEN s.MinX ELSE r.MinX,
              MinY |-> IF r.MinY < s.MinY THEN s.MinY ELSE r.MinY,
              MaxX |-> r.MaxX,
              MaxY |-> r.MaxY]
    IN  IF RectEmpty(t) THEN ZR ELSE t

\* Rectangle.Intersect
Intersect(r, s) ==
    LET t == [MinX |-> IF r.MinX < s.MinX THEN s.MinX ELSE r.MinX,
              MinY |-> IF r.MinY < s.MinY THEN s.MinY ELSE r.MinY,
              MaxX |-> IF r.MaxX > s.MaxX THEN s.MaxX ELSE r.MaxX,
              MaxY |-> IF r.MaxY > s.MaxY THEN s.MaxY ELSE r.MaxY]
    IN  IF RectEmpty(t) THEN ZR ELSE t

\* Point.In
PtIn(x, y, r) == r.MinX <= x /\ x < r.MaxX /\ r.MinY <= y /\ y < r.MaxY

\* fb.bounds = image.Rect(0, 0, fb.width, fb.height)
FbBounds == Rect(0, 0, fbWidth, fbHeight)

\* the bounds test of At and Set without the test against the width
OutOfRange_noWidth(x, y) == x < 0 \/ y < 0 \/ y >= fbHeight

\* the bounds test that opens At and Set
OutOfRange(x, y) == x < 0 \/ y < 0 \/ x >= fbWidth \/ y >= fbHeight

\* y*fb.stride + x*(int(fb.colorDepth)/8)
Offset(x, y) == y * fbStride + x * BytesPerPixel(fbDepth)

\* fb.data[off], fb.data[off+1], ... = bs; an index outside the slice
\* panics
Store(data, off, bs) ==
    IF off < 0 \/ off + Len(bs) > Len(data)
    THEN [data |-> data, panic |-> TRUE]
    ELSE [data |-> [k \in 1..Len(data) |->
                      IF k > off /\ k <= off + Len(bs)
                      THEN bs[k - off] ELSE data[k]],
          panic |-> FALSE]

\* fb.data[off+i]; an index outside the slice panics
Load(data, off, i) ==
    IF off + i < 0 \/ off + i >= Len(data) THEN -1 ELSE data[off + i + 1]

\* the bytes Set stores for colour c at the active depth
Encode(c) ==
    LET w  == RGBA16(c)
        r8 == (w.r \div 256) % 256
        g8 == (w.g \div 256) % 256
        b8 == (w.b \div 256) % 256
        a8 == (w.a \div 256) % 256
        px == rgbaToRGB565(r8, g8, b8)
    IN  IF fbDepth = ColorDepth16 THEN <<px % 256, (px \div 256) % 256>>
        ELSE IF fbDepth = ColorDepth24 THEN <<b8, g8, r8>>
        ELSE <<b8, g8, r8, a8>>

\* Framebuffer.Set on a surface whose fb.data is data: the new contents,
\* and whether it panicked
SetOn(data, x, y, c) ==
    IF OutOfRange(x, y) THEN [data |-> data, panic |-> FALSE]
    ELSE IF Offset(x, y) + BytesPerPixel(fbDepth) - 1 >= Len(data)
         THEN [data |-> data, panic |-> FALSE]
         ELSE Store(data, Offset(x, y), Encode(c))

\* Framebuffer.Set: the new contents of fb.data, and whether it panicked
SetData(x, y, c) == SetOn(fbData, x, y, c)

\* Framebuffer.At: the colour returned, and whether it panicked
AtColor(x, y) ==
    IF OutOfRange(x, y) THEN [color |-> ZeroColor, panic |-> FALSE]
    ELSE IF Offset(x, y) + BytesPerPixel(fbDepth) - 1 >= Len(fbData)
         THEN [color |-> ZeroColor, panic |-> FALSE]
         ELSE LET off == Offset(x, y)
                  b0 == Load(fbData, off, 0)
                  b1 == Load(fbData, off, 1)
                  b2 == Load(fbData, off, 2)
                  b3 == Load(fbData, off, 3)
              IN  IF fbDepth = ColorDepth16
                  THEN IF b0 < 0 \/ b1 < 0
                       THEN [color |-> ZeroColor, panic |-> TRUE]
                       ELSE [color |-> rgb565ToRGBA(b0 + b1 * 256),
                             panic |-> FALSE]
                  ELSE IF fbDepth = ColorDepth24
                  THEN IF b0 < 0 \/ b1 < 0 \/ b2 < 0
                       THEN [color |-> ZeroColor, panic |-> TRUE]
                       ELSE [color |-> [R |-> b2, G |-> b1, B |-> b0,
                                        A |-> 255],
                             panic |-> FALSE]
                  ELSE IF b0 < 0 \/ b1 < 0 \/ b2 < 0 \/ b3 < 0
                       THEN [color |-> ZeroColor, panic |-> TRUE]
                       ELSE [color |-> [R |-> b2, G |-> b1, B |-> b0,
                                        A |-> b3],
                             panic |-> FALSE]

\* ------------------------------------------------------- inputs of SpecFB
Colors == {[R |-> 255, G |-> 255, B |-> 255, A |-> 255],
           [R |-> 7, G |-> 3, B |-> 100, A |-> 128]}

XCoords == -1..MaxW
YCoords == -1..MaxH

\* a rectangle around the whole surface, its left column, its lower right
\* part, and an empty rectangle that is not the zero rectangle
RectInputs ==
    {[MinX |-> -1, MinY |-> -1, MaxX |-> MaxW + 1, MaxY |-> MaxH + 1],
     [MinX |-> -1, MinY |-> -1, MaxX |-> 1, MaxY |-> MaxH + 1],
     [MinX |-> 1, MinY |-> 1, MaxX |-> MaxW + 1, MaxY |-> MaxH + 1],
     [MinX |-> 1, MinY |-> -1, MaxX |-> 1, MaxY |-> MaxH + 1]}

None == [R |-> -1, G |-> -1, B |-> -1, A |-> -1]

Pixels == {<<x, y>> : x \in 0..(fbWidth - 1), y \in 0..(fbHeight - 1)}

\* the exploration writes at most MaxWritten different pixels of a surface
MayWrite(x, y) ==
    IF ~fbMapped \/ <<x, y>> \notin Pixels THEN TRUE
    ELSE IF written[<<x, y>>] # None THEN TRUE
    ELSE Cardinality({px \in Pixels : written[px] # None}) < MaxWritten

\* ------------------------------------------------------ actions of SpecFB
\* detectFormat on the sysfs files bits_per_pixel, virtual_size and stride
detectFormat(bppFile, sizeFile, strideFile) ==
    LET fail(e) == [err |-> e, depth |-> 0, width |-> 0, height |-> 0,
                    stride |-> 0]
        bpp == Atoi(bppFile.data)
        parts == Split(sizeFile.data)
    IN  IF ~bppFile.exists THEN fail("read bits_per_pixel")
        ELSE IF bpp.err THEN fail("parse bits_per_pixel")
        ELSE IF bpp.val \notin Depths THEN fail("depth")
        ELSE IF ~sizeFile.exists THEN fail("read virtual_size")
        ELSE IF Len(parts) # 2 THEN fail("virtual_size format")
        ELSE IF Atoi(parts[1]).err THEN fail("parse width")
        ELSE IF Atoi(parts[2]).err THEN fail("parse height")
        ELSE [err |-> "none", depth |-> bpp.val,
              width |-> Atoi(parts[1]).val, height |-> Atoi(parts[2]).val,
              stride |-> IF ~strideFile.exists
                         THEN Atoi(parts[1]).val * BytesPerPixel(bpp.val)
                         ELSE Atoi(strideFile.data).val]

\* mapMemory accepts every length
mapMemory_anySize(stride, height) == "none"

\* mapMemory: syscall.Mmap of stride x height bytes, EINVAL when that length
\* is not positive
mapMemory(stride, height) == IF stride * height <= 0 THEN "mmap" ELSE "none"

\* the rest of an open call after detectFormat returned f: return its error,
\* or map the memory and return the surface
Opened(f) ==
    IF f.err # "none"
    THEN /\ openErr' = f.err
         /\ UNCHANGED <<fbFile, fbMapped, fbData, fbWidth, fbHeight,
                        fbStride, fbDepth, written>>
    ELSE IF mapMemory(f.stride, f.height) # "none"
    THEN /\ openErr' = mapMemory(f.stride, f.height)
         /\ UNCHANGED <<fbFile, fbMapped, fbData, fbWidth, fbHeight,
                        fbStride, fbDepth, written>>
    ELSE /\ openErr' = "none"
         /\ fbFile' = "open" /\ fbMapped' = TRUE
         /\ fbData' = [k \in 1..(f.stride * f.height) |-> 0]
         /\ fbWidth' = f.width /\ fbHeight' = f.height
         /\ fbStride' = f.stride /\ fbDepth' = f.depth
         /\ written' = [px \in {<<x, y>> : x \in 0..(f.width - 1),
                                           y \in 0..(f.height - 1)}
                          |-> None]

\* OpenFramebuffer: detectFormat, then mapMemory
OpenFramebuffer(bppFile, sizeFile, strideFile) ==
    /\ fbFile = "none"
    /\ Opened(detectFormat(bppFile, sizeFile, strideFile))
    /\ openArgs' = [bpp |-> bppFile, size |-> sizeFile,
                    stride |-> strideFile, forced |-> -1]
    /\ UNCHANGED <<view, lastAt, closeErr, oobHit, panicked, rendered>>

\* OpenFramebufferWithDepth: detectFormat, the override of depth and stride
\* when depth is one of the three ColorDepth values, then mapMemory
OpenFramebufferWithDepth(bppFile, sizeFile, strideFile, depth) ==
    /\ fbFile = "none"
    /\ LET f == detectFormat(bppFile, sizeFile, strideFile)
       IN  Opened(IF f.err = "none" /\ depth \in Depths
                  THEN [f EXCEPT !.depth = depth,
                                 !.stride = f.width * BytesPerPixel(depth)]
                  ELSE f)
    /\ openArgs' = [bpp |-> bppFile, size |-> sizeFile,
                    stride |-> strideFile, forced |-> depth]
    /\ UNCHANGED <<view, lastAt, closeErr, oobHit, panicked, rendered>>

\* Framebuffer.Set(x, y, c)
Set(x, y, c) ==
    /\ fbFile # "none" /\ MayWrite(x, y)
    /\ fbData' = SetData(x, y, c).data
    /\ panicked' = (panicked \/ SetData(x, y, c).panic)
    /\ written' = IF fbMapped /\ <<x, y>> \in Pixels
                  THEN [written EXCEPT ![<<x, y>>] = c] ELSE written
    /\ UNCHANGED <<fbFile, fbMapped, fbWidth, fbHeight, fbStride, fbDepth,
                   view, lastAt, openErr, closeErr, oobHit>>
    /\ UNCHANGED <<openArgs, rendered>>

\* Framebuffer.At(x, y)
At(x, y) ==
    /\ fbFile # "none"
    /\ lastAt' = AtColor(x, y).color
    /\ panicked' = (panicked \/ AtColor(x, y).panic)
    /\ oobHit' = (fbMapped /\ <<x, y>> \notin Pixels)
    /\ UNCHANGED <<fbFile, fbMapped, fbData, fbWidth, fbHeight, fbStride,
                   fbDepth, view, openErr, closeErr, written>>
    /\ UNCHANGED <<openArgs, rendered>>

\* Framebuffer.SubImage(r)
SubImage(r) ==
    /\ fbFile # "none"
    /\ view' = [depth |-> 1, bounds |-> Intersect(r, FbBounds)]
    /\ UNCHANGED <<fbFile, fbMapped, fbData, fbWidth, fbHeight, fbStride,
                   fbDepth, lastAt, openErr, closeErr, written, oobHit,
                   panicked>>
    /\ UNCHANGED <<openArgs, rendered>>

\* subFramebuffer.SubImage(r)
ViewSubImage(r) ==
    /\ view.depth >= 1 /\ view.depth < MaxNest
    /\ view' = [depth |-> view.depth + 1,
                bounds |-> Intersect(r, view.bounds)]
    /\ UNCHANGED <<fbFile, fbMapped, fbData, fbWidth, fbHeight, fbStride,
                   fbDepth, lastAt, openErr, closeErr, written, oobHit,
                   panicked>>
    /\ UNCHANGED <<openArgs, rendered>>

\* subFramebuffer.Set: the new contents of fb.data, and whether it panicked
ViewSetData(x, y, c) ==
    IF ~PtIn(x, y, view.bounds) THEN [data |-> fbData, panic |-> FALSE]
    ELSE SetData(x, y, c)

\* subFramebuffer.Set(x, y, c)
ViewSet(x, y, c) ==
    /\ view.depth >= 1 /\ MayWrite(x, y)
    /\ fbData' = ViewSetData(x, y, c).data
    /\ panicked' = (panicked \/ ViewSetData(x, y, c).panic)
    /\ written' = IF fbMapped /\ <<x, y>> \in Pixels
                     /\ <<x, y>> \in {q \in Pixels :
                            /\ view.bounds.MinX <= q[1]
                            /\ q[1] < view.bounds.MaxX
                            /\ view.bounds.MinY <= q[2]
                            /\ q[2] < view.bounds.MaxY}
                  THEN [written EXCEPT ![<<x, y>>] = c]
                  ELSE written
    /\ UNCHANGED <<fbFile, fbMapped, fbWidth, fbHeight, fbStride, fbDepth,
                   view, lastAt, openErr, closeErr, oobHit>>
    /\ UNCHANGED <<openArgs, rendered>>

\* subFramebuffer.At(x, y)
ViewAt(x, y) ==
    /\ view.depth >= 1
    /\ lastAt' = AtColor(x, y).color
    /\ panicked' = (panicked \/ AtColor(x, y).panic)
    /\ oobHit' = (fbMapped /\ <<x, y>> \notin Pixels)
    /\ UNCHANGED <<fbFile, fbMapped, fbData, fbWidth, fbHeight, fbStride,
                   fbDepth, view, openErr, closeErr, written>>
    /\ UNCHANGED <<openArgs, rendered>>

\* Framebuffer.Close: Munmap when data is not nil, then fb.file.Close(),
\* which fails on a file that is already closed
Close ==
    /\ fbFile # "none"
    /\ fbData' = <<>> /\ fbMapped' = FALSE
    /\ closeErr' = (fbFile = "closed")
    /\ fbFile' = "closed"
    /\ written' = <<>>
    /\ UNCHANGED <<fbWidth, fbHeight, fbStride, fbDepth, view, lastAt,
                   openErr, oobHit, panicked>>
    /\ UNCHANGED <<openArgs, rendered>>

InitFB == LockInit /\ MainIdle /\ FBIdle /\ BMPIdle

\* the text of virtual_size for a w x h screen
SizeText(w, h) == Itoa(w) \o <<Comma>> \o Itoa(h)

\* The stride file holds the kernel's line_length, never less than
\* width x bytes per pixel. Here an unpadded screen has no stride file and
\* a padded one has it, beside a stride file that cannot be parsed.
NextFB ==
    \/ \E bpp \in Depths \cup {8} : \E w \in 1..MaxW : \E h \in 1..MaxH :
         \E strideFile \in {NoFile, Text(<<Junk>>)} \cup
               {Text(Itoa(w * BytesPerPixel(bpp) + pad)) : pad \in 1..MaxPad} :
            OpenFramebuffer(Text(Itoa(bpp)), Text(SizeText(w, h)), strideFile)
            /\ UNCHANGED <<lockVars, mainVars, bmpVars>>
    \/ \E x \in XCoords : \E y \in YCoords : \E c \in Colors :
         Set(x, y, c) /\ UNCHANGED <<lockVars, mainVars, bmpVars>>
    \/ \E x \in XCoords : \E y \in YCoords :
         At(x, y) /\ UNCHANGED <<lockVars, mainVars, bmpVars>>
    \/ \E r \in RectInputs : SubImage(r) /\ UNCHANGED <<lockVars, mainVars, bmpVars>>
    \/ \E r \in RectInputs :
         ViewSubImage(r) /\ UNCHANGED <<lockVars, mainVars, bmpVars>>
    \/ \E x \in XCoords : \E y \in YCoords : \E c \in Colors :
         ViewSet(x, y, c) /\ UNCHANGED <<lockVars, mainVars, bmpVars>>
    \/ \E x \in XCoords : \E y \in YCoords :
         ViewAt(x, y) /\ UNCHANGED <<lockVars, mainVars, bmpVars>>
    \/ Close /\ UNCHANGED <<lockVars, mainVars, bmpVars>>

SpecFB == InitFB /\ [][NextFB]_vars

\* ------------------------------------------------- scale and draw.Draw
\* largest width and height of a source image
MaxSrc == 2

\* the source pixel of target pixel (dx, dy) is always the first one
NearestSource_topLeft(dx, dy, dw, dh, sw, sh) == <<0, 0>>

\* NearestNeighbor.Scale: the source pixel of target pixel (dx, dy) when
\* sw x sh pixels are scaled to dw x dh
NearestSource(dx, dy, dw, dh, sw, sh) ==
    <<((2 * dx + 1) * sw) \div (2 * dw), ((2 * dy + 1) * sh) \div (2 * dh)>>

\* scaledImg: Scale composes the source pixel over the transparent pixel
\* of the new RGBA image, which leaves the source pixel; nothing is drawn
\* from an empty source
ScaledAt(img, dx, dy) ==
    IF img.width = 0 \/ img.height = 0 THEN ZeroColor
    ELSE img.pix[NearestSource(dx, dy, fbWidth, fbHeight,
                               img.width, img.height)]

\* draw.Draw(fb, targetRect, scaledImg, image.Point{}, draw.Src): a Set of
\* every pixel of the bounds, row by row; here the first k of them
RECURSIVE DrawOn(_, _, _)
DrawOn(data, img, k) ==
    IF k = 0 THEN [data |-> data, panic |-> FALSE]
    ELSE LET before == DrawOn(data, img, k - 1)
             x == (k - 1) % fbWidth
             y == (k - 1) \div fbWidth
             now == SetOn(before.data, x, y, ScaledAt(img, x, y))
         IN  [data |-> now.data, panic |-> before.panic \/ now.panic]

\* displayImage from "Scale the image" on: scale img to the bounds of the
\* surface and draw it
Render(img) ==
    /\ fbMapped
    /\ fbData' = DrawOn(fbData, img, fbWidth * fbHeight).data
    /\ panicked' = (panicked \/ DrawOn(fbData, img, fbWidth * fbHeight).panic)
    /\ written' = [px \in Pixels |-> ScaledAt(img, px[1], px[2])]
    /\ rendered' = img
    /\ UNCHANGED <<fbFile, fbMapped, fbWidth, fbHeight, fbStride, fbDepth,
                   view, lastAt, openErr, closeErr, oobHit, openArgs>>

\* source images: of one colour, and of two colours side by side, one
\* above the other, and in a checkerboard
SourceImages ==
    {Decoded(FALSE, "none", w, h,
             [q \in {<<x, y>> : x \in 0..(w - 1), y \in 0..(h - 1)} |->
                IF (q[1] + q[2]) % 2 = 0 THEN c ELSE d]) :
       w \in 1..MaxSrc, h \in 1..MaxSrc, c \in Colors, d \in Colors}

InitRender == LockInit /\ MainIdle /\ FBIdle /\ BMPIdle

\* a surface is opened, some pixels of an earlier frame are set, an image
\* is rendered, the surface is closed
NextRender ==
    \/ \E bpp \in Depths : \E w \in 1..MaxW : \E h \in 1..MaxH :
         \E strideFile \in {NoFile} \cup
               {Text(Itoa(w * BytesPerPixel(bpp) + pad)) : pad \in 1..MaxPad} :
            /\ openArgs = NoArgs
            /\ OpenFramebuffer(Text(Itoa(bpp)), Text(SizeText(w, h)),
                               strideFile)
            /\ UNCHANGED <<lockVars, mainVars, bmpVars>>
    \/ \E x \in 0..MaxW : \E y \in 0..MaxH : \E c \in Colors :
         /\ rendered = NoImage
         /\ Set(x, y, c) /\ UNCHANGED <<lockVars, mainVars, bmpVars>>
    \/ \E img \in SourceImages :
         Render(img) /\ UNCHANGED <<lockVars, mainVars, bmpVars>>
    \/ Close /\ UNCHANGED <<lockVars, mainVars, bmpVars>>

SpecRender == InitRender /\ [][NextRender]_vars

\* ------------------------------------------------- the two open functions
\* contents of bits_per_pixel: missing, empty, no number, or a depth
BppFiles == {NoFile, Text(<<>>), Text(<<Junk>>), Text(<<1, Junk>>)} \cup
            {Text(Itoa(d)) : d \in Depths \cup {8}}

\* contents of virtual_size for a w x h screen, and damaged ones
SizeFiles(w, h) ==
    {Text(SizeText(w, h)), NoFile, Text(Itoa(w)),
     Text(SizeText(w, h) \o <<Comma>> \o Itoa(h)),
     Text(<<Junk, Comma>> \o Itoa(h)), Text(Itoa(w) \o <<Comma, Junk>>),
     Text(Itoa(w) \o <<Comma>>)}

\* contents of stride for a screen w pixels wide: missing, no number, or a
\* line length of one of the depths with up to MaxPad bytes of padding
StrideFiles(w) ==
    {NoFile, Text(<<Junk>>), Text(<<>>)} \cup
    {Text(Itoa(w * BytesPerPixel(d) + pad)) : d \in Depths, pad \in 0..MaxPad}

InitOpen == LockInit /\ MainIdle /\ FBIdle /\ BMPIdle

\* one open call on each boot of the screen, with or without a forced depth
NextOpen ==
    \/ \E bppFile \in BppFiles : \E w \in 1..MaxW : \E h \in 1..MaxH :
         \E sizeFile \in SizeFiles(w, h) : \E strideFile \in StrideFiles(w) :
            /\ openArgs = NoArgs
            /\ OpenFramebuffer(bppFile, sizeFile, strideFile)
            /\ UNCHANGED <<lockVars, mainVars, bmpVars>>
    \/ \E bppFile \in BppFiles : \E w \in 1..MaxW : \E h \in 1..MaxH :
         \E sizeFile \in SizeFiles(w, h) : \E strideFile \in StrideFiles(w) :
            \E depth \in Depths \cup {0, 8} :
               /\ openArgs = NoArgs
               /\ OpenFramebufferWithDepth(bppFile, sizeFile, strideFile,
                                           depth)
               /\ UNCHANGED <<lockVars, mainVars, bmpVars>>
    \/ Close /\ UNCHANGED <<lockVars, mainVars, bmpVars>>

SpecOpen == InitOpen /\ [][NextOpen]_vars

\* ------------------------------------------------------- lock properties
Holders == {p \in Procs : alive[p] /\ Acquired[p]}

\* C1: under every interleaving of Acquire and Release by several
\* processes, at most one live process at a time has had Acquire succeed
\* and has not released.
MutualExclusion == Cardinality(Holders) <= 1

\* process p's Acquire returns in this step
AcquireReturns(p) == pc[p] \notin {"idle", "dead"} /\ pc'[p] = "idle"

\* process p's running Acquire read a pid from the marker and probed it dead
FoundStale(p) ==
    /\ pc[p] \in {"remove", "open", "write", "mark"}
    /\ pidRead[p] # 0

OwnMarker(p) == [exists |-> TRUE, data |-> Itoa(Getpid(p))]

\* C2: an Acquire that finds the marker recording the pid of a process
\* that is not alive returns success, with Acquired set and the marker
\* holding the caller's own pid.
StaleAcquireSucceeds ==
    [][\A p \in Procs :
         (AcquireReturns(p) /\ FoundStale(p)) =>
            (res'[p] = "ok" /\ Acquired'[p] /\ marker' = OwnMarker(p))]_vars

\* C3: when the pid an Acquire read from the marker belongs to a live
\* process at the liveness probe, the Acquire returns the busy error for
\* that pid, the probe leaves the marker as it is, and Acquired stays
\* false.
BusyOnLiveOwner ==
    [][\A p \in Procs :
         (/\ pc[p] = "probe" /\ pc'[p] # "probe" /\ alive'[p]
          /\ pidRead[p] \in Pids /\ alive[pidRead[p]]) =>
            (/\ res'[p] = "busy" /\ pc'[p] = "idle"
             /\ pidRead'[p] = pidRead[p]
             /\ marker' = marker
             /\ ~Acquired'[p])]_vars

BusyWitness ==
    \E p \in Procs :
        /\ pc[p] = "idle" /\ res[p] = "busy"
        /\ pidRead[p] \in Procs /\ pidRead[p] # p /\ alive[pidRead[p]]
        /\ marker = OwnMarker(pidRead[p]) /\ ~Acquired[p]

\* C4: every finished Acquire ended in success or in the busy error;
\* there is no third outcome, whatever the marker file held.
AcquireOutcomes ==
    \A p \in Procs :
        (pc[p] = "idle" /\ res[p] # "none") => res[p] \in {"ok", "busy"}

\* process p's Release call happens in this step
ReleaseReturns(p) == relLog'[p] # relLog[p] /\ relLog'[p] # <<>>

\* C5: a Release on a lock that is not acquired (Acquire never succeeded,
\* or a Release already removed the marker) leaves the marker file and the
\* Acquired flags as they are.
ReleaseIdempotent ==
    [][\A p \in Procs :
         (ReleaseReturns(p) /\ ~Acquired[p]) =>
            (/\ marker' = marker
             /\ Acquired' = Acquired
             /\ relLog'[p][Len(relLog'[p])] = "noop")]_vars

SecondReleaseWitness ==
    \E p \in Procs : \E q \in Procs :
        /\ relLog[p] = <<"removed", "noop">>
        /\ q # p /\ marker = OwnMarker(q)

\* ---------------------------------------------------- surface properties
WideX == (-1)..(MaxW + 1)
WideY == (-1)..(MaxH + 1)

Outside(x, y) == ~(0 <= x /\ x < fbWidth /\ 0 <= y /\ y < fbHeight)

\* C7: at every depth and stride, Set at coordinates outside
\* [0,width) x [0,height) changes no byte and At there returns the zero
\* colour; no Set or At, at any coordinates, indexes outside the mapped
\* region (panics).
OutOfBoundsIsNoOp ==
    /\ ~panicked
    /\ oobHit => lastAt = ZeroColor
    /\ fbFile # "none" =>
         \A x \in WideX : \A y \in WideY :
            /\ ~AtColor(x, y).panic
            /\ Outside(x, y) => AtColor(x, y).color = ZeroColor
            /\ \A c \in Colors :
                  /\ ~SetData(x, y, c).panic
                  /\ Outside(x, y) => SetData(x, y, c).data = fbData

OutOfBoundsWitness ==
    /\ fbMapped /\ oobHit /\ lastAt = ZeroColor
    /\ fbStride > fbWidth * BytesPerPixel(fbDepth)
    /\ \A px \in Pixels : written[px] # None
    /\ \E k \in 1..Len(fbData) : fbData[k] # 0

Abs(n) == IF n < 0 THEN -n ELSE n

\* q is colour c reduced to the precision of depth d
Reduced(d, c, q) ==
    IF d = 32 THEN q = c
    ELSE IF d = 24
    THEN q.R = c.R /\ q.G = c.G /\ q.B = c.B /\ q.A = 255
    ELSE /\ Abs(q.R - c.R) <= 8 /\ Abs(q.B - c.B) <= 8
         /\ Abs(q.G - c.G) <= 4

\* C8: at every depth, At(x,y) after Set(x,y,c) on an in-bounds pixel
\* returns c reduced to the depth's precision: exact at 32 bits, exact
\* R,G,B with alpha 255 at 24 bits, R and B within 8 and G within 4 at 16
\* bits, for every 8-bit channel value (the 16-bit conversion is a function
\* of the colour alone: all 256 values are put through it where no surface
\* is open yet).
RoundTrip ==
    /\ fbMapped =>
         \A px \in Pixels :
            written[px] # None =>
               Reduced(fbDepth, written[px], AtColor(px[1], px[2]).color)
    /\ fbFile = "none" =>
       \A v \in 0..255 :
         Reduced(16, [R |-> v, G |-> 255 - v, B |-> (v * 7) % 256, A |-> 255],
                 rgb565ToRGBA(rgbaToRGB565(v, 255 - v, (v * 7) % 256)))

RoundTripWitness ==
    /\ fbMapped /\ fbDepth = ColorDepth16 /\ ~oobHit
    /\ \E px \in Pixels :
         /\ written[px] # None
         /\ lastAt = AtColor(px[1], px[2]).color
         /\ lastAt.R # written[px].R /\ lastAt.G # written[px].G

\* the points of a rectangle
PointsOf(r) ==
    {q \in WideX \X WideY :
        r.MinX <= q[1] /\ q[1] < r.MaxX /\ r.MinY <= q[2] /\ q[2] < r.MaxY}

\* the positions in fb.data of the bytes of pixel q
BytesOf(q) ==
    {q[2] * fbStride + q[1] * BytesPerPixel(fbDepth) + i :
        i \in 1..BytesPerPixel(fbDepth)}

\* C9: a view made by SubImage(r), on the surface or on a view of any
\* nesting depth, covers exactly r intersected with its parent's bounds; a
\* Set through the view changes bytes of the surface only at the written
\* coordinates and only when they lie in the view's bounds; every Set
\* through a view with empty bounds leaves the surface unchanged.
ViewClipping ==
    fbFile # "none" =>
      /\ \A r \in RectInputs :
            /\ PointsOf(Intersect(r, FbBounds))
                  = PointsOf(r) \cap PointsOf(FbBounds)
            /\ PointsOf(Intersect(r, view.bounds))
                  = PointsOf(r) \cap PointsOf(view.bounds)
      /\ view.depth >= 1 =>
            LET inView == PointsOf(view.bounds) IN
            /\ inView \subseteq PointsOf(FbBounds)
            /\ \A x \in WideX : \A y \in WideY : \A c \in Colors :
                  LET new == ViewSetData(x, y, c).data IN
                  /\ Len(new) = Len(fbData)
                  /\ new # fbData =>
                        /\ <<x, y>> \in inView
                        /\ \A k \in 1..Len(fbData) :
                              new[k] # fbData[k] => k \in BytesOf(<<x, y>>)
                  /\ inView = {} => new = fbData

ViewClippingWitness ==
    /\ fbMapped /\ view.depth = MaxNest
    /\ PointsOf(view.bounds) # {}
    /\ PointsOf(view.bounds) # PointsOf(FbBounds)
    /\ \E px \in Pixels :
         /\ px \in PointsOf(view.bounds)
         /\ written[px] # None
         /\ \E k \in BytesOf(px) : fbData[k] # 0

\* C10: every Close reports no error, the first one and each later one on
\* the same surface.
CloseIdempotent == closeErr = FALSE

\* =========================================================== decodeCustomBMP
\* largest width and height of an image file, bytes cut off its end
MaxBmpW == 2
MaxBmpH == 2
MaxCut == 2

\* data[i] of a Go byte slice, which counts from 0
ByteAt(data, i) == data[i + 1]

\* uint16(data[i]) | uint16(data[i+1])<<8
U16(data, i) == ByteAt(data, i) + 256 * ByteAt(data, i + 1)

\* int(int32(u)) of u = uint32(data[i]) | uint32(data[i+1])<<8 |
\* uint32(data[i+2])<<16 | uint32(data[i+3])<<24
Int32(data, i) ==
    U16(data, i) + 65536 * ByteAt(data, i + 2)
      + 16777216 * (IF ByteAt(data, i + 3) >= 128
                    THEN ByteAt(data, i + 3) - 256 ELSE ByteAt(data, i + 3))

\* what stands for an int above the largest int32: it lies beyond the end
\* of every file, and the sums of the pixel loop stay below the next one
Far == 1073741824

\* int(u) of the same u: an int of 32 bits wraps a u with the top bit set
\* to a negative number, an int of 64 bits holds it
ToInt(data, i) ==
    IF ByteAt(data, i + 3) >= 128 /\ intBits = 64 THEN Far
    ELSE Int32(data, i)

Black == [R |-> 0, G |-> 0, B |-> 0, A |-> 255]
White == [R |-> 255, G |-> 255, B |-> 255, A |-> 255]

\* the header fields that decodeCustomBMP parses from data
Header(data) ==
    LET h == Int32(data, 22)
        hs == ToInt(data, 14)
        bpp == U16(data, 28)
        nc == IF hs >= 36 /\ Len(data) > 49 THEN ToInt(data, 46) ELSE 0
    IN  [dataOffset |-> ToInt(data, 10),
         headerSize |-> hs,
         width |-> Abs(Int32(data, 18)),
         height |-> Abs(h),
         isBottomUp |-> h >= 0,
         bitsPerPixel |-> bpp,
         numColors |-> IF nc = 0 /\ bpp <= 8 THEN 2 ^ bpp ELSE nc]

\* rows that are not aligned to 4 bytes
RowSize_unpadded(hd) == (hd.width * hd.bitsPerPixel + 7) \div 8

\* rowSize := ((width*bitsPerPixel + 31) / 32) * 4
RowSize(hd) == ((hd.width * hd.bitsPerPixel + 31) \div 32) * 4

\* the palette loop: make([]color.RGBA, numColors), then the entries whose
\* three bytes lie within data
ReadPalette(data, hd) ==
    LET off == (14 + hd.headerSize)
    IN  [i \in 1..hd.numColors |->
           IF \A j \in 1..i : off + (j - 1) * 4 + 2 < Len(data)
           THEN [R |-> ByteAt(data, off + (i - 1) * 4 + 2),
                 G |-> ByteAt(data, off + (i - 1) * 4 + 1),
                 B |-> ByteAt(data, off + (i - 1) * 4),
                 A |-> 255]
           ELSE ZeroColor]

\* the palette loop or make panics: a negative length, a negative index
PalettePanics(data, hd) ==
    /\ hd.bitsPerPixel \in {1, 4, 8}
    /\ \/ hd.numColors < 0
       \/ hd.numColors > 0 /\ (14 + hd.headerSize) < 0
                           /\ (14 + hd.headerSize) + 2 < Len(data)

\* the palette is never swapped
Palette_noSwap(data, hd, dark) ==
    LET read == ReadPalette(data, hd)
    IN  IF Len(read) < 2 THEN <<Black, White>> ELSE read

\* the palette the pixel loop looks up: the one read, the default one when
\* len(palette) < 2, its two entries swapped in dark mode for 1-bit
Palette(data, hd, dark) ==
    LET read == ReadPalette(data, hd)
        pal == IF Len(read) < 2 THEN <<Black, White>> ELSE read
    IN  IF dark /\ hd.bitsPerPixel = 1 /\ Len(pal) = 2
        THEN <<pal[2], pal[1]>> ELSE pal

\* palette[index], or opaque black when index is not below len(palette)
Lookup(pal, index) == IF index < Len(pal) THEN pal[index + 1] ELSE Black

\* one turn of the pixel loop at (x, y): "set" with the colour for img.Set,
\* "skip" for continue, "panic" for an index outside data, "unsupported"
\* for the default case
PixelAt(data, hd, pal, x, y) ==
    LET srcY == IF hd.isBottomUp THEN hd.height - 1 - y ELSE y
        bpp == hd.bitsPerPixel
        row == hd.dataOffset + srcY * RowSize(hd)
        out(k, c) == [kind |-> k, col |-> c]
        n == Len(data)
    IN  IF bpp \in {24, 32}
        THEN LET pos == row + (x * bpp) \div 8
             IN  IF pos + 3 > n THEN out("skip", ZeroColor)
                 ELSE IF pos < 0 THEN out("panic", ZeroColor)
                 ELSE out("set", [R |-> ByteAt(data, pos + 2),
                                  G |-> ByteAt(data, pos + 1),
                                  B |-> ByteAt(data, pos),
                                  A |-> IF bpp = 32 /\ pos + 3 < n
                                        THEN ByteAt(data, pos + 3) ELSE 255])
        ELSE IF bpp = 16
        THEN LET pos == row + x * 2
             IN  IF pos + 1 >= n THEN out("skip", ZeroColor)
                 ELSE IF pos < 0 THEN out("panic", ZeroColor)
                 ELSE LET value == U16(data, pos)
                      IN  out("set", [R |-> ((value \div 2048) % 32) * 8,
                                      G |-> ((value \div 32) % 64) * 4,
                                      B |-> (value % 32) * 8,
                                      A |-> 255])
        ELSE IF bpp = 8
        THEN LET pos == row + x
             IN  IF pos >= n THEN out("skip", ZeroColor)
                 ELSE IF pos < 0 THEN out("panic", ZeroColor)
                 ELSE out("set", Lookup(pal, ByteAt(data, pos)))
        ELSE IF bpp = 4
        THEN LET pos == row + x \div 2
             IN  IF pos >= n THEN out("skip", ZeroColor)
                 ELSE IF pos < 0 THEN out("panic", ZeroColor)
                 ELSE out("set", Lookup(pal,
                          IF x % 2 = 0 THEN (ByteAt(data, pos) \div 16) % 16
                          ELSE ByteAt(data, pos) % 16))
        ELSE IF bpp = 1
        THEN LET bytePos == row + x \div 8
                 bitPos == 7 - (x % 8)
             IN  IF bytePos >= n THEN out("skip", ZeroColor)
                 ELSE IF bytePos < 0 THEN out("panic", ZeroColor)
                 ELSE LET bit == (ByteAt(data, bytePos) \div (2 ^ bitPos)) % 2
                      IN  out("set", [Lookup(pal, bit) EXCEPT !.A = 255])
        ELSE out("unsupported", ZeroColor)

\* decodeCustomBMP(file, darkMode) on a file that holds data
decodeCustomBMP(data, dark) ==
    IF Len(data) = 0 THEN Decoded(TRUE, "none", 0, 0, <<>>)
    ELSE IF ByteAt(data, 0) # 66
    THEN Decoded(FALSE, "invalid BMP signature", 0, 0, <<>>)
    ELSE IF Len(data) = 1 THEN Decoded(TRUE, "none", 0, 0, <<>>)
    ELSE IF ByteAt(data, 1) # 77
    THEN Decoded(FALSE, "invalid BMP signature", 0, 0, <<>>)
    ELSE IF Len(data) < 30 THEN Decoded(TRUE, "none", 0, 0, <<>>)
    ELSE
    LET hd == Header(data)
        pts == {<<x, y>> : x \in 0..(hd.width - 1), y \in 0..(hd.height - 1)}
    IN  IF PalettePanics(data, hd) THEN Decoded(TRUE, "none", 0, 0, <<>>)
        ELSE
        LET pal == IF hd.bitsPerPixel \in {1, 4, 8}
                   THEN Palette(data, hd, dark) ELSE <<>>
            px == [q \in pts |-> PixelAt(data, hd, pal, q[1], q[2])]
        IN  IF \E q \in pts : px[q].kind = "unsupported"
            THEN Decoded(FALSE, "unsupported BMP bit depth", 0, 0, <<>>)
            ELSE IF \E q \in pts : px[q].kind = "panic"
            THEN Decoded(TRUE, "none", 0, 0, <<>>)
            ELSE Decoded(FALSE, "none", hd.width, hd.height,
                         [q \in pts |-> px[q].col])

\* ------------------------------------------------------------ image files
\* n as k little-endian bytes
RECURSIVE LE(_, _)
LE(n, k) == IF k = 0 THEN <<>> ELSE <<n % 256>> \o LE(n \div 256, k - 1)

\* the 32-bit field that holds the number n; -16777216 <= n < 0 is held
\* in two's complement, which is also the unsigned number n + 2^32
Field32(n) == IF n >= 0 THEN LE(n, 4) ELSE LE(n % 16777216, 3) \o <<255>>

\* colours of the palette table of the files: blue, green, red, reserved
TableEntries == <<<<10, 20, 30, 0>>, <<200, 210, 220, 0>>, <<5, 6, 7, 0>>>>

RECURSIVE TableBytes(_)
TableBytes(k) ==
    IF k = 0 THEN <<>> ELSE TableBytes(k - 1) \o TableEntries[k]

\* k bytes of pixel data that start at seed
PixelBytes(seed, k) == [i \in 1..k |-> (seed + 65 * (i - 1)) % 256]

Seeds == {0, 1, 128}

\* a BMP file: the 14-byte file header, the 40-byte info header, a table
\* of entries palette entries, the rows of pixel data
BMPFile(reserved, offset, hdrSize, w, h, bpp, colors, entries, seed) ==
    <<66, 77>> \o LE(0, 4) \o LE(reserved, 4) \o Field32(offset)
      \o LE(hdrSize, 4) \o Field32(w) \o Field32(h) \o LE(1, 2)
      \o LE(bpp, 2) \o LE(0, 16) \o LE(colors, 4) \o LE(0, 4)
      \o TableBytes(entries)
      \o PixelBytes(seed, ((w * bpp + 31) \div 32) * 4 * Abs(h))

\* the file without its last cut bytes
Cut(f, cut) == SubSeq(f, 1, IF cut > Len(f) THEN 0 ELSE Len(f) - cut)

AllDepths == {1, 2, 4, 8, 16, 24, 32}
SupportedDepths == {1, 4, 8, 16, 24, 32}

\* files of every depth, width and height, bottom-up and top-down, whole
\* and with bytes cut off the end of the pixel data
GeometryFiles ==
    {Cut(BMPFile(0, 54 + 4 * e, 40, w, h, bpp, 0, e, seed), cut) :
       bpp \in AllDepths, w \in 0..MaxBmpW,
       h \in {-MaxBmpH} \cup 0..MaxBmpH, seed \in Seeds,
       e \in {2}, cut \in 0..MaxCut}

\* indexed files with every colour count, a table of 0 to 3 entries, and
\* an info header size that puts the table at 26, at 54 or past the end
PaletteFiles ==
    {BMPFile(0, 54 + 4 * e, hs, MaxBmpW, 1, bpp, nc, e, seed) :
       bpp \in {1, 4, 8}, nc \in 0..3, e \in 0..3, hs \in {12, 40, 200},
       seed \in Seeds}

\* files whose pixel data offset lies in the header, past the end of the
\* file, and (4294967280, the field of -16) above the largest int32
OffsetFiles ==
    {BMPFile(0, off, 40, MaxBmpW, h, bpp, 0, 2, 128) :
       bpp \in SupportedDepths, h \in {-1, 1}, off \in {30, 1000, -16}}

\* a file cut inside its headers, files of other formats, and a BMP file
\* with a reserved field that is not zero
OtherFiles ==
    {SubSeq(BMPFile(0, 62, 40, 1, 1, 1, 0, 2, 128), 1, n) :
       n \in {0, 1, 2, 9, 10, 14, 29, 30, 49, 50, 54}}
    \cup {BMPFile(1, 62, 40, 1, 1, bpp, 0, 2, 128) : bpp \in {1, 24}}
    \cup {<<66>>, <<66, 0>>, <<0, 77>>, <<255, 216, 255, 224>>,
          <<137, 80, 78, 71, 13, 10, 26, 10>>, <<137, 80, 78, 71, 0>>,
          <<71, 73, 70, 56, 57, 97>>, <<1, 2, 3>>}

ImageFiles == GeometryFiles \cup PaletteFiles \cup OffsetFiles \cup OtherFiles

\* a call of decodeCustomBMP on the image file
DecodeCustomBMP ==
    /\ decRes = NoImage
    /\ decRes' = decodeCustomBMP(imgFile, darkMode)
    /\ UNCHANGED <<imgFile, darkMode, intBits, dispRes>>

\* buffer[i] of getImageFormat's 512-byte buffer after file.Read
BufferAt(data, i) == IF i < Len(data) THEN ByteAt(data, i) ELSE 0

\* getImageFormat: Read fails with io.EOF on an empty file; the four
\* signatures differ in their first byte, so the map order does not matter
getImageFormat(data) ==
    LET is(sig) == \A i \in 1..Len(sig) : BufferAt(data, i - 1) = sig[i]
    IN  IF Len(data) = 0 THEN [err |-> TRUE, format |-> ""]
        ELSE IF is(<<255, 216>>) THEN [err |-> FALSE, format |-> "jpeg"]
        ELSE IF is(<<137, 80, 78, 71>>) THEN [err |-> FALSE, format |-> "png"]
        ELSE IF is(<<71, 73, 70>>) THEN [err |-> FALSE, format |-> "gif"]
        ELSE IF is(<<66, 77>>) THEN [err |-> FALSE, format |-> "bmp"]
        ELSE [err |-> FALSE, format |-> "unknown"]

\* the format that image.Decode finds among the registered ones (jpeg, png
\* and bmp, by the imports): it peeks as many bytes as the magic string is
\* long, "\xff\xd8", "\x89PNG\r\n\x1a\n" or "BM????\x00\x00\x00\x00",
\* where ? matches any byte; "" when none matches
Sniff(data) ==
    LET is(sig) == /\ Len(data) >= Len(sig)
                   /\ \A i \in 1..Len(sig) : sig[i] \in {-1, data[i]}
    IN  IF is(<<255, 216>>) THEN "jpeg"
        ELSE IF is(<<137, 80, 78, 71, 13, 10, 26, 10>>) THEN "png"
        ELSE IF is(<<66, 77, -1, -1, -1, -1, 0, 0, 0, 0>>) THEN "bmp"
        ELSE ""

\* image.Decode(file): the format name is returned with the error of the
\* decoder that was chosen; ok is whether that decoder can decode the
\* file, which for a BMP file it can only if the file holds an image
imageDecode(data, ok) ==
    LET format == Sniff(data)
        plain == decodeCustomBMP(data, FALSE)
    IN  IF format = "" THEN [format |-> "", err |-> TRUE, img |-> NoImage]
        ELSE IF format = "bmp"
        THEN IF ok /\ ~plain.panic /\ plain.err = "none"
             THEN [format |-> format, err |-> FALSE, img |-> plain]
             ELSE [format |-> format, err |-> TRUE, img |-> NoImage]
        ELSE IF ok
        THEN [format |-> format, err |-> FALSE,
              img |-> Decoded(FALSE, "none", 1, 1, <<0, 0>> :> White)]
        ELSE [format |-> format, err |-> TRUE, img |-> NoImage]

\* the decode stage of displayImage with options.DarkMode = dark
displayDecode(data, dark, ok) ==
    LET sniffed == getImageFormat(data)
        std == imageDecode(data, ok)
        custom == decodeCustomBMP(data, dark)
        out(ran, e, img) == [sniff |-> sniffed.format,
                             stdFormat |-> std.format, stdErr |-> std.err,
                             custom |-> ran, err |-> e, img |-> img]
    IN  IF sniffed.err
        THEN [sniff |-> "", stdFormat |-> "", stdErr |-> FALSE,
              custom |-> FALSE, err |-> "error determining image format",
              img |-> NoImage]
        ELSE IF std.err /\ std.format = "bmp"
        THEN IF custom.panic THEN out(TRUE, "panic", NoImage)
             ELSE IF custom.err # "none"
             THEN out(TRUE, "both standard and custom BMP decoders failed",
                      NoImage)
             ELSE out(TRUE, "none", custom)
        ELSE IF std.err
        THEN out(FALSE, "error decoding image format", NoImage)
        ELSE out(FALSE, "none", std.img)

\* displayImage up to the decoded image
DisplayImage(ok) ==
    /\ dispRes = NoDisplay
    /\ dispRes' = displayDecode(imgFile, darkMode, ok)
    /\ UNCHANGED <<imgFile, darkMode, intBits, decRes>>

InitBMP ==
    /\ LockInit /\ MainIdle /\ FBIdle
    /\ imgFile \in ImageFiles /\ darkMode \in BOOLEAN /\ intBits \in {32, 64}
    /\ decRes = NoImage /\ dispRes = NoDisplay

NextBMP ==
    \/ DecodeCustomBMP /\ UNCHANGED <<lockVars, mainVars, fbVars>>
    \/ \E ok \in BOOLEAN :
         DisplayImage(ok) /\ UNCHANGED <<lockVars, mainVars, fbVars>>

SpecBMP == InitBMP /\ [][NextBMP]_vars

\* ------------------------------------------------------ open properties
\* a text that is one decimal number
Digits(s) == Len(s) > 0 /\ \A i \in 1..Len(s) : s[i] \in 0..9

\* the values "W,H" of a size file that can be parsed, else the empty set
SizeOf(f) ==
    IF ~f.exists THEN {}
    ELSE {<<AtoiDigits(SubSeq(f.data, 1, i - 1)),
            AtoiDigits(SubSeq(f.data, i + 1, Len(f.data)))>> :
            i \in {j \in 1..Len(f.data) :
                     /\ f.data[j] = Comma
                     /\ Digits(SubSeq(f.data, 1, j - 1))
                     /\ Digits(SubSeq(f.data, j + 1, Len(f.data)))}}

\* the probed depth is none of the three, or size or stride has no parse
Unparsed(a) ==
    \/ ~a.bpp.exists \/ ~Digits(a.bpp.data)
    \/ AtoiDigits(a.bpp.data) \notin {16, 24, 32}
    \/ SizeOf(a.size) = {}
    \/ (a.stride.exists /\ ~Digits(a.stride.data))

ForcedDepthOnlyWhenDifferent ==
    (fbMapped /\ openArgs.forced \in Depths) =>
       LET probed == detectFormat(openArgs.bpp, openArgs.size,
                                  openArgs.stride)
       IN  IF openArgs.forced # probed.depth
           THEN /\ fbDepth = openArgs.forced
                /\ fbStride = fbWidth * BytesPerPixel(openArgs.forced)
           ELSE fbDepth = probed.depth /\ fbStride = probed.stride

\* --------------------------------------------------- decoder properties
\* the file begins with "BM" and is long enough to hold the depth field
HasDepth(f) == Len(f) >= 30 /\ ByteAt(f, 0) = 66 /\ ByteAt(f, 1) = 77

\* C12: decodeCustomBMP returns the unsupported-bit-depth error for every
\* file whose bits-per-pixel field is none of 1, 4, 8, 16, 24, 32, whatever
\* its width and height.
UnsupportedDepthRejected ==
    (decRes # NoImage /\ HasDepth(imgFile)
       /\ U16(imgFile, 28) \notin SupportedDepths)
      => (~decRes.panic /\ decRes.err = "unsupported BMP bit depth")

\* the position in the file of the first byte of pixel (x, y), from the
\* unsigned offset field
FirstByte(f, x, y) ==
    LET hd == Header(f)
        off == IF ByteAt(f, 13) >= 128 THEN Far ELSE Int32(f, 10)
        srcY == IF hd.isBottomUp THEN hd.height - 1 - y ELSE y
    IN  off + srcY * RowSize(hd) + (x * hd.bitsPerPixel) \div 8

\* C13: decodeCustomBMP does not panic or fail on a file that begins with
\* "BM", however short; when the file declares a supported depth it returns
\* an image of the declared width and height in which every pixel whose
\* bytes lie past the end of the file has the zero value.
TruncationTolerated ==
    (decRes # NoImage /\ Len(imgFile) >= 2
       /\ ByteAt(imgFile, 0) = 66 /\ ByteAt(imgFile, 1) = 77)
      => /\ ~decRes.panic
         /\ (HasDepth(imgFile) /\ U16(imgFile, 28) \in SupportedDepths)
              => /\ decRes.err = "none"
                 /\ decRes.width = Abs(Int32(imgFile, 18))
                 /\ decRes.height = Abs(Int32(imgFile, 22))
                 /\ \A q \in DOMAIN decRes.pix :
                      FirstByte(imgFile, q[1], q[2]) >= Len(imgFile)
                        => decRes.pix[q] = ZeroColor

\* the number of entries of the palette that a 1-, 4- or 8-bit file is
\* looked up in: its colour count, 2 to the depth when that is 0, and the
\* 2 of the default palette when that is 1
PaletteEntries(f) ==
    IF Header(f).numColors < 2 THEN 2 ELSE Header(f).numColors

\* the k-th colour of that palette as the 1-bit case draws it
OpaqueEntry(f, k) == [Palette(f, Header(f), FALSE)[k] EXCEPT !.A = 255]

\* C14: for a 1-bit file with a 2-entry palette the decode with darkMode
\* has, at each pixel, the other palette colour than the decode without
\* (a pixel that one decode skips the other skips too); for every other
\* file the two decodes are the same.
InvertSwapsPalette ==
    decRes # NoImage =>
      LET other == decodeCustomBMP(imgFile, ~darkMode)
          plain == IF darkMode THEN other ELSE decRes
          inv == IF darkMode THEN decRes ELSE other
      IN  IF HasDepth(imgFile) /\ U16(imgFile, 28) = 1
             /\ PaletteEntries(imgFile) = 2 /\ ~plain.panic
          THEN /\ ~inv.panic /\ inv.err = plain.err
               /\ DOMAIN inv.pix = DOMAIN plain.pix
               /\ \A q \in DOMAIN plain.pix :
                    /\ plain.pix[q] = OpaqueEntry(imgFile, 1)
                         => inv.pix[q] = OpaqueEntry(imgFile, 2)
                    /\ plain.pix[q] = OpaqueEntry(imgFile, 2)
                         => inv.pix[q] = OpaqueEntry(imgFile, 1)
                    /\ plain.pix[q] = ZeroColor <=> inv.pix[q] = ZeroColor
                    /\ plain.pix[q] \in {OpaqueEntry(imgFile, 1),
                                         OpaqueEntry(imgFile, 2), ZeroColor}
          ELSE inv = plain

\* a dark-mode decode of a 1-bit file with two different palette colours,
\* both of which appear in the image
InvertWitness ==
    /\ darkMode /\ decRes # NoImage /\ ~decRes.panic /\ decRes.err = "none"
    /\ HasDepth(imgFile) /\ U16(imgFile, 28) = 1
    /\ PaletteEntries(imgFile) = 2
    /\ OpaqueEntry(imgFile, 1) # OpaqueEntry(imgFile, 2)
    /\ \E q, r \in DOMAIN decRes.pix :
         /\ decRes.pix[q] = OpaqueEntry(imgFile, 1)
         /\ decRes.pix[r] = OpaqueEntry(imgFile, 2)

\* how many entries of the palette table lie within the file
ReadableEntries(f) ==
    Cardinality({i \in 0..(Header(f).numColors - 1) :
                   14 + Header(f).headerSize + i * 4 + 2 < Len(f)})

\* the palette index that the file holds for pixel (x, y)
IndexAt(f, x, y) ==
    LET b == ByteAt(f, FirstByte(f, x, y))
        bpp == U16(f, 28)
    IN  IF bpp = 8 THEN b
        ELSE IF bpp = 4 THEN (IF x % 2 = 0 THEN b \div 16 ELSE b % 16)
        ELSE (b \div (2 ^ (7 - (x % 8)))) % 2

\* C20: in a 1-, 4- or 8-bit decode of a file from which fewer than 2
\* palette entries can be read, every pixel that the file holds is looked
\* up in the default palette {black, white} (swapped by dark mode for 1 bit).
DefaultPaletteWhenUnreadable ==
    (decRes # NoImage /\ HasDepth(imgFile) /\ ~decRes.panic
       /\ U16(imgFile, 28) \in {1, 4, 8} /\ ReadableEntries(imgFile) < 2)
      => \A q \in DOMAIN decRes.pix :
           FirstByte(imgFile, q[1], q[2]) < Len(imgFile)
             => decRes.pix[q] =
                  LET dflt == IF darkMode /\ U16(imgFile, 28) = 1
                              THEN <<White, Black>> ELSE <<Black, White>>
                      idx == IndexAt(imgFile, q[1], q[2])
                  IN  IF idx < 2 THEN dflt[idx + 1] ELSE Black

\* --------------------------------------------------- display properties
\* C15: in displayImage the custom BMP decoder runs exactly when the
\* standard decoder failed on a file that getImageFormat sniffed as bmp; a
\* failure of the standard decoder on another format is returned with no
\* fallback; when both decoders fail the error says that both failed.
FallbackWhenSniffedBMP ==
    (dispRes # NoDisplay /\ dispRes.err # "error determining image format")
      => /\ dispRes.custom <=> (dispRes.stdErr /\ dispRes.sniff = "bmp")
         /\ (dispRes.stdErr /\ dispRes.sniff # "bmp")
              => (~dispRes.custom
                  /\ dispRes.err = "error decoding image format")
         /\ (dispRes.custom /\ dispRes.err \notin {"none", "panic"})
              => dispRes.err = "both standard and custom BMP decoders failed"

\* the image with its two palette colours c0 and c1 exchanged
Inverted(img, c0, c1) ==
    [img EXCEPT !.pix = [q \in DOMAIN img.pix |->
                           IF img.pix[q] = c0 THEN c1
                           ELSE IF img.pix[q] = c1 THEN c0
                           ELSE img.pix[q]]]

\* C18: with dark mode, the image that displayImage goes on to draw for a
\* 1-bit BMP file is the inverted one of the image it draws without dark
\* mode, whether the standard or the custom decoder produced it.
DarkModeInverts ==
    (dispRes # NoDisplay /\ dispRes.err = "none" /\ darkMode
       /\ HasDepth(imgFile) /\ U16(imgFile, 28) = 1)
      => dispRes.img =
           Inverted(displayDecode(imgFile, FALSE, ~dispRes.stdErr).img,
                    OpaqueEntry(imgFile, 1), OpaqueEntry(imgFile, 2))

\* ---------------------------------------------------- render properties
\* the source column (or row) i nearest to target column d of dn: the
\* centre of d, scaled to the sn source columns, lies in column i
Nearest(i, d, dn, sn) ==
    2 * dn * i <= (2 * d + 1) * sn /\ (2 * d + 1) * sn < 2 * dn * (i + 1)

CycleFailureSleeps ==
    /\ [](/\ (cycleErr # "none" /\ mpc # "exited") => mpc = "sleep60"
          /\ mpc = "exited" => exitBy \in {"acquire", "signal"}
          /\ exitBy = "acquire" => cycleErr = "none")
    /\ [][(mpc = "sleep60" /\ mpc' # mpc) => mpc' \in {"fetch", "exited"}]_vars

\* main sleeps its 60 seconds after a panic inside the cycle was recovered
PanicWitness == mpc = "sleep60" /\ cycleErr = "panic" /\ alive[Self]

\* ------------------------------------------------- pixel loop properties
\* the least number of b's that hold a
CeilDiv(a, b) == IF a % b = 0 THEN a \div b ELSE a \div b + 1

\* a decode of the image file that returned an image
DecodedImage ==
    /\ decRes # NoImage /\ ~decRes.panic /\ decRes.err = "none"
    /\ HasDepth(imgFile)

\* the colour that the file holds at column x of its k-th stored row, rows
\* being rowSize bytes apart from the data offset on; the zero value when
\* the bytes lie past the end of the file
StoredPixel(f, dark, k, x, rowSize) ==
    LET hd == Header(f)
        pal == IF hd.bitsPerPixel \in {1, 4, 8}
               THEN Palette(f, hd, dark) ELSE <<>>
        row == [hd EXCEPT !.isBottomUp = FALSE,
                          !.dataOffset = hd.dataOffset + k * rowSize]
    IN  PixelAt(f, row, pal, x, 0).col

\* C21: in every decoded image, row y holds the pixels of stored row
\* height-1-y when the height field is positive and of stored row y when it
\* is negative, stored row k starting at dataOffset + k * rowSize with
\* rowSize = ceil(width * bitsPerPixel / 32) * 4.
RowOrder ==
    DecodedImage =>
      LET hd == Header(imgFile)
          field == Int32(imgFile, 22)
          rowSize == CeilDiv(hd.width * hd.bitsPerPixel, 32) * 4
      IN  \A q \in DOMAIN decRes.pix :
            /\ field > 0 =>
                 decRes.pix[q] = StoredPixel(imgFile, darkMode,
                                   hd.height - 1 - q[2], q[1], rowSize)
            /\ field < 0 =>
                 decRes.pix[q] = StoredPixel(imgFile, darkMode,
                                   q[2], q[1], rowSize)

\* a whole 2x2 24-bit bottom-up file whose rows are padded, decoded: row 0
\* of the image is the last stored row and differs from the first
RowOrderWitness ==
    /\ DecodedImage
    /\ U16(imgFile, 28) = 24 /\ Int32(imgFile, 18) = 2
    /\ Int32(imgFile, 22) = 2
    /\ Len(imgFile) = Header(imgFile).dataOffset + 16
    /\ decRes.pix[<<0, 0>>].B = ByteAt(imgFile, Header(imgFile).dataOffset + 8)
    /\ decRes.pix[<<1, 0>>].B = ByteAt(imgFile, Header(imgFile).dataOffset + 11)
    /\ decRes.pix[<<0, 1>>].B = ByteAt(imgFile, Header(imgFile).dataOffset)
    /\ decRes.pix[<<0, 0>>] # decRes.pix[<<0, 1>>]

\* a 5-bit and a 6-bit field widened to 8 bits, the top bits repeated in
\* the low bits: (v << 3) | (v >> 2) and (v << 2) | (v >> 4)
Widen5(v) == v * 8 + v \div 4
Widen6(v) == v * 4 + v \div 16

\* C22: every pixel of a decoded 16-bit image whose two bytes lie in the
\* file has its 5-6-5 fields widened to 8 bits with the top bits repeated
\* and alpha 255, which is the colour that the surface's rgb565ToRGBA gives
\* for the same packed value.
Expand565 ==
    (DecodedImage /\ U16(imgFile, 28) = 16)
      => \A q \in DOMAIN decRes.pix :
           LET pos == FirstByte(imgFile, q[1], q[2])
           IN  (pos >= 0 /\ pos + 1 < Len(imgFile))
                 => LET value == U16(imgFile, pos)
                    IN  /\ decRes.pix[q] =
                             [R |-> Widen5((value \div 2048) % 32),
                              G |-> Widen6((value \div 32) % 64),
                              B |-> Widen5(value % 32),
                              A |-> 255]
                        /\ decRes.pix[q] = rgb565ToRGBA(value)

\* C23: in a decoded 8-, 4- or 1-bit image every pixel whose byte lies in
\* the file is palette[index], or opaque black when index is not below the
\* palette length, with index the whole byte at 8 bits, the high nibble for
\* even x and the low nibble for odd x at 4 bits, and bit 7 - (x mod 8) of
\* byte x/8 at 1 bit.
IndexedLookup ==
    (DecodedImage /\ U16(imgFile, 28) \in {1, 4, 8})
      => LET palette == Palette(imgFile, Header(imgFile), darkMode)
         IN  \A q \in DOMAIN decRes.pix :
               LET pos == FirstByte(imgFile, q[1], q[2])
                   index == IndexAt(imgFile, q[1], q[2])
               IN  (pos >= 0 /\ pos < Len(imgFile))
                     => decRes.pix[q] = IF index < Len(palette)
                                        THEN palette[index + 1] ELSE Black

\* ------------------------------------------------ lock and write properties
\* C24: every write to the framebuffer, by the startup clear, by a
\* displayImage draw or by the handler's shutdown clear, was made while the
\* process held the lock: after its Acquire succeeded and before its
\* Release.
WritesUnderLock == \A w \in fbWrites : w[2]

\* process p removes the marker file in this step, by the stale removal
\* of its Acquire or by its Release
Removes(p) ==
    /\ marker.exists /\ ~marker'.exists
    /\ \/ pc[p] = "remove" /\ pc'[p] = "open"
       \/ ReleaseReturns(p)

\* C25: no process removes a marker file that at the moment of the removal
\* records the pid of another process that is alive, neither in Release nor
\* in the stale removal of Acquire.
NoLiveMarkerRemoved ==
    [][\A p \in Procs : Removes(p) =>
         \A q \in Procs \ {p} : ~(alive[q] /\ marker = OwnMarker(q))]_vars

====
